---- MODULE Spec2Model ----
(***************************************************************************)
(* Chat-session persistence of ChatOpsDesktop: the side panel's in-memory  *)
(* model (folders, chat entries), the chat controller (current file,       *)
(* history) and the ChatHistory directory on disk, together with the       *)
(* background AIChatWorker.                                                *)
(*                                                                         *)
(* Names (chat titles, folder names, file stems) are sequences of glyphs.  *)
(* A glyph is a one-character string, or a whole formatted timestamp such  *)
(* as "Chat 2025-01-01 00-00-01", which no operation looks into.           *)
(***************************************************************************)
EXTENDS Integers, Sequences, FiniteSets, TLC

\* ------------------------------------------------------------------ bounds
MaxTime == 2          \* seconds the wall clock may advance to
MaxItems == 4         \* list-widget items created in one run of the program
MaxMsgs == 1          \* messages the user sends
MaxRestarts == 1      \* restarts of the application
MaxOps == 5           \* operations the user performs
MaxTasks == 3         \* tasks handed to the worker (worker specification)

\* --------------------------------------------------------- program constants
max_len == 200

\* ------------------------------------------------------------------ inputs
\* Texts typed into the inline chat-title editor.
TitleInputs == { <<"b">>, <<".", ".">>, <<"b", "?">> }
\* Texts typed into the inline folder-name editor.
FolderInputs == { <<"New folder 2">>, <<"W", "/", "x">> }
\* Texts typed into the chat input box.
TextInputs == { "hi", "" }

NoTitle == <<>>
None == <<"None">>
NoModel == "NoModel"

\* ------------------------------------------------------ timestamp formatting
\* datetime.now().strftime(...) for the formats the program uses; t is the
\* wall clock in seconds.
StampNewChat(t) == "Chat 2025-01-01 00-00-0" \o ToString(t)
StampEnsure(t) == "Chat 2025-01-01_00-00-0" \o ToString(t)
StampSanitize(t) == "Chat_2025-01-01_00-00-0" \o ToString(t)
StampRename(t) == "2025010100000" \o ToString(t)

DefaultFolderName == <<"Default folder">>
NewFolderName(n) == << "New folder " \o ToString(n) >>

\* ------------------------------------------------------------ sequence helpers
Front(s) == SubSeq(s, 1, Len(s) - 1)
Last(s) == s[Len(s)]
Range(s) == { s[i] : i \in 1..Len(s) }
IndexOf(s, x) == IF x \in Range(s) THEN CHOOSE i \in 1..Len(s) : s[i] = x /\ \A j \in 1..(i-1) : s[j] # x ELSE 0
RemoveAt(s, i) == IF i \in 1..Len(s) THEN SubSeq(s, 1, i - 1) \o SubSeq(s, i + 1, Len(s)) ELSE s
RemoveFirst(s, x) == RemoveAt(s, IndexOf(s, x))
\* QListWidget.insertItem(row, item), row counted from 0 and clamped
InsertAt(s, row, x) ==
  LET r == IF row < 0 THEN 0 ELSE IF row > Len(s) THEN Len(s) ELSE row
  IN SubSeq(s, 1, r) \o <<x>> \o SubSeq(s, r + 1, Len(s))

\* --------------------------------------------------------------- sanitizing
Forbidden == { "/", "\\", ":", "*", "?", "\"", "<", ">", "|" }
IsSpace(c) == c \in { " ", "\t", "\n" }

RECURSIVE CollapseSpace(_)
\* re.sub(r'\s+', ' ', s)
CollapseSpace(s) ==
  IF s = <<>> THEN <<>>
  ELSE IF IsSpace(s[1])
       THEN IF Len(s) > 1 /\ IsSpace(s[2]) THEN CollapseSpace(Tail(s))
            ELSE <<" ">> \o CollapseSpace(Tail(s))
       ELSE <<s[1]>> \o CollapseSpace(Tail(s))

RECURSIVE RStrip(_, _)
RStrip(s, chars) == IF s # <<>> /\ Last(s) \in chars THEN RStrip(Front(s), chars) ELSE s
RECURSIVE LStrip(_, _)
LStrip(s, chars) == IF s # <<>> /\ s[1] \in chars THEN LStrip(Tail(s), chars) ELSE s
Strip(s) == RStrip(LStrip(s, {" ", "\t", "\n"}), {" ", "\t", "\n"})

ReplaceForbidden(s) == [ i \in 1..Len(s) |-> IF s[i] \in Forbidden THEN "_" ELSE s[i] ]

\* sanitize_filename(name, max_len=200) evaluated at wall-clock time t
sanitize_filename(name, t) ==
  LET cleaned1 == Strip(CollapseSpace(ReplaceForbidden(name)))
      cleaned2 == IF Len(cleaned1) > max_len THEN RStrip(SubSeq(cleaned1, 1, max_len), {" ", "\t", "\n"}) ELSE cleaned1
      cleaned3 == RStrip(cleaned2, {" ", "."})
  IN IF cleaned3 = <<>> THEN << StampSanitize(t) >> ELSE cleaned3

\* the local _sanitize of resolve_chat_file: no length limit, no fallback
resolve_sanitize(s) == RStrip(Strip(CollapseSpace(ReplaceForbidden(s))), {" ", "."})

\* str.lower() on the glyphs of the model
LowerGlyph(c) == CASE c = "B" -> "b" [] c = "W" -> "w" [] OTHER -> c
Lower(s) == [ i \in 1..Len(s) |-> LowerGlyph(s[i]) ]

\* ------------------------------------------------------------------- paths
RECURSIVE SplitFrom(_, _)
\* pathlib: the components of a relative path text, split at "/"
SplitFrom(s, acc) ==
  IF s = <<>> THEN (IF acc = <<>> THEN <<>> ELSE <<acc>>)
  ELSE IF s[1] = "/" THEN (IF acc = <<>> THEN <<>> ELSE <<acc>>) \o SplitFrom(Tail(s), <<>>)
  ELSE SplitFrom(Tail(s), Append(acc, s[1]))
\* storage_root / folder_name, as the components below storage_root
DirPath(folder) == SplitFrom(folder, <<>>)

\* components p is a (non-strict) prefix of q
IsPrefix(p, q) == Len(p) <= Len(q) /\ SubSeq(q, 1, Len(p)) = p
\* folder_path / f"{stem}.json"; the titles of the model hold no "/"
ChatPath(folder, stem) == << DirPath(folder), stem >>

\* ------------------------------------------------------------------ state
VARIABLES
  side_panel,         \* Slide_Side_Panel: folders, history_list, items, active_folder, folder_counter, next_item
  disk,               \* ChatHistory: directory path -> (file stem -> JSON document)
  current_chat_file,  \* Operation_Chat_Controller.current_chat_file
  chat_history,       \* Operation_Chat_Controller.chat_history
  display,            \* the bubbles of the chat window's result_layout
  model,              \* Operation_Chat_Controller.model
  now,                \* wall clock, in seconds
  queue,              \* AIChatWorker.queue
  running,            \* AIChatWorker._running
  worker_cfg,         \* AIChatWorker.api_key / base_url / model
  wpc,                \* where the worker thread is in run()
  task,               \* the task the worker thread holds
  inbox,              \* finished signals queued for the UI thread
  sent,               \* requests posted so far: task, url, key, model (history)
  added,              \* number of add_task calls so far (history)
  ui_pc,              \* where the UI thread is in AIChatWorker.stop(): "run", "stop_put", "stop_wait", "stopped"
  msgs_sent,          \* messages sent by the user so far
  restarts,           \* restarts so far
  ops,                \* user operations so far
  last_op,            \* the operation that ran last, with its arguments and the state before it (history)
  token_manager,      \* TokenManager: total_tokens, today_tokens, last_date
  stats_file,         \* token_stats.json
  current_date,       \* the day of the wall clock
  token_op,           \* the TokenManager operation that ran last, with the state before it (history)
  request,            \* the arguments of requests.post the worker thread has evaluated so far
  config_op           \* update_config: the arguments of the running call; the configuration of the call
                      \* that returned last, now and when the worker took its task (history)

vars == << side_panel, disk, current_chat_file, chat_history, display, model, now,
           queue, running, worker_cfg, wpc, task, inbox, sent, added, ui_pc, msgs_sent, restarts, ops, last_op,
           token_manager, stats_file, current_date, token_op, request, config_op >>
configVars == << request, config_op >>
tokenVars == << token_manager, stats_file, current_date, token_op >>
uiVars == << side_panel, disk, current_chat_file, chat_history, display, now, msgs_sent, restarts, ops >>
workerVars == << queue, running, worker_cfg, wpc, task, inbox, sent, added, ui_pc >>

\* --------------------------------------------------------------- file system
NoFiles == << >>
EmptyDisk == ( << >> :> NoFiles )
DirExists(dk, p) == p \in DOMAIN dk
FileExists(dk, path) == path[1] \in DOMAIN dk /\ path[2] \in DOMAIN dk[path[1]]
FileAt(dk, path) == dk[path[1]][path[2]]
\* all *.json files directly in directory p
Glob(dk, p) == IF DirExists(dk, p) THEN { << p, s >> : s \in DOMAIN dk[p] } ELSE {}
\* Path.mkdir(parents=True, exist_ok=True)
MkdirParents(dk, p) ==
  [ q \in DOMAIN dk \cup { SubSeq(p, 1, n) : n \in 0..Len(p) } |-> IF q \in DOMAIN dk THEN dk[q] ELSE NoFiles ]
\* Path.mkdir(exist_ok=True): raises when the parent is missing
MkdirOk(dk, p) == DirExists(dk, p) \/ (p # << >> /\ DirExists(dk, Front(p)))
Mkdir(dk, p) == IF DirExists(dk, p) THEN dk ELSE (p :> NoFiles) @@ dk
\* open(path, "w") / Path.write_text: the directory must exist; the file is created or truncated
WriteOk(dk, path) == DirExists(dk, path[1])
WriteFile(dk, path, doc) == [ dk EXCEPT ![path[1]] = (path[2] :> doc) @@ @ ]
\* Path.unlink
Unlink(dk, path) == [ dk EXCEPT ![path[1]] = [ s \in (DOMAIN @) \ { path[2] } |-> @[s] ] ]
\* Path.rename of a file inside one directory (os.rename replaces an existing target)
RenameFile(dk, path, target) ==
  [ dk EXCEPT ![path[1]] = [ s \in ((DOMAIN @) \ { path[2] }) \cup { target[2] } |->
                               IF s = target[2] THEN @[path[2]] ELSE @[s] ] ]
\* a directory with no file and no subdirectory
DirEmpty(dk, p) == dk[p] = NoFiles /\ \A q \in DOMAIN dk : IsPrefix(p, q) => q = p
\* os.rename of a directory (POSIX): the parent of the target must exist, the target
\* must not lie inside the source, and an existing target must be an empty directory
RenameDirOk(dk, old, new) ==
  /\ DirExists(dk, old)
  /\ new # << >> /\ DirExists(dk, Front(new))
  /\ ~IsPrefix(old, new)
  /\ (DirExists(dk, new) => DirEmpty(dk, new))
Rebase(q, old, new) == new \o SubSeq(q, Len(old) + 1, Len(q))
RenameDir(dk, old, new) ==
  LET moved == { q \in DOMAIN dk : IsPrefix(old, q) }
      kept == (DOMAIN dk) \ (moved \cup { new })
  IN [ q \in kept \cup { Rebase(m, old, new) : m \in moved } |->
         IF q \in kept THEN dk[q]
         ELSE dk[CHOOSE m \in moved : Rebase(m, old, new) = q] ]
\* shutil.rmtree
RmTree(dk, p) == [ q \in { r \in DOMAIN dk : ~IsPrefix(p, r) } |-> dk[q] ]

\* ------------------------------------------------------------ JSON documents
\* owner is history: the side-panel items the file was created or loaded for
DictDoc(title, folder, messages, owner) ==
  [ kind |-> "dict", title |-> title, folder |-> folder, messages |-> messages, owner |-> owner ]
ListDoc(messages, owner) ==
  [ kind |-> "list", title |-> NoTitle, folder |-> None, messages |-> messages, owner |-> owner ]
\* the title of a dict document that has no "title" key: data.get("title", ...) takes the default
MissingTitle == << "(no title key)" >>
\* a file that is not valid JSON, or JSON that is neither a dict nor a list
BadDoc == [ kind |-> "bad", title |-> NoTitle, folder |-> None, messages |-> << >>, owner |-> {} ]
OwnerAt(dk, path) == IF FileExists(dk, path) THEN FileAt(dk, path).owner ELSE {}

\* ------------------------------------------------------------ sorting (sorted())
\* where a glyph stands in Python's string order
GlyphRank(g) ==
  CASE g = " " -> 32000 [] g = "." -> 46000 [] g = "/" -> 47000 [] g = "?" -> 63000
    [] g = "B" -> 66000 [] g = "W" -> 87000 [] g = "_" -> 95000 [] g = "b" -> 98000 [] g = "x" -> 120000
    [] g = "Default folder" -> 68000
    [] \E t \in 0..MaxTime : g = StampRename(t) -> 50000 + (CHOOSE t \in 0..MaxTime : g = StampRename(t))
    [] \E t \in 0..MaxTime : g = StampNewChat(t) -> 67000 + (CHOOSE t \in 0..MaxTime : g = StampNewChat(t))
    [] \E t \in 0..MaxTime : g = StampEnsure(t) -> 67100 + (CHOOSE t \in 0..MaxTime : g = StampEnsure(t))
    [] \E t \in 0..MaxTime : g = StampSanitize(t) -> 67200 + (CHOOSE t \in 0..MaxTime : g = StampSanitize(t))
    [] \E n \in 0..(MaxItems + 2) : <<g>> = NewFolderName(n) -> 78000 + (CHOOSE n \in 0..(MaxItems + 2) : <<g>> = NewFolderName(n))
    [] OTHER -> 0
RECURSIVE NameLess(_, _)
NameLess(a, b) ==
  IF a = << >> THEN b # << >>
  ELSE IF b = << >> THEN FALSE
  ELSE IF GlyphRank(a[1]) # GlyphRank(b[1]) THEN GlyphRank(a[1]) < GlyphRank(b[1])
  ELSE NameLess(Tail(a), Tail(b))
RECURSIVE SortNames(_)
SortNames(S) ==
  IF S = {} THEN << >>
  ELSE LET m == CHOOSE x \in S : \A y \in S \ {x} : NameLess(x, y)
       IN << m >> \o SortNames(S \ {m})

\* ------------------------------------------------------------ the side panel
FolderIdx(fs, name) == IF \E i \in 1..Len(fs) : fs[i].name = name THEN CHOOSE i \in 1..Len(fs) : fs[i].name = name ELSE 0
FolderNames(sp) == { sp.folders[i].name : i \in 1..Len(sp.folders) }
FolderOf(sp, name) == sp.folders[FolderIdx(sp.folders, name)]
HeaderItem(name) == [ data |-> << name, NoTitle >>, folder_name |-> None, label |-> NoTitle ]
ChatItem(folder_name, title) == [ data |-> << folder_name, title >>, folder_name |-> folder_name, label |-> title ]
DropItems(its, gone) == [ i \in (DOMAIN its) \ gone |-> its[i] ]
RECURSIVE TakeItems(_, _)
\* history_list.takeItem(history_list.row(x)) for each x of the sequence xs
TakeItems(hl, xs) == IF xs = << >> THEN hl ELSE TakeItems(RemoveFirst(hl, xs[1]), Tail(xs))

\* Slide_Side_Panel.__init__ up to init_ui
FreshPanel ==
  [ folders |-> << >>, history_list |-> << >>, items |-> << >>,
    active_folder |-> None, folder_counter |-> 0, next_item |-> 1 ]

\* create_folder(name); name = None is the call without argument
create_folder(sp, name) ==
  LET fc == IF name = None THEN sp.folder_counter + 1 ELSE sp.folder_counter
      nm == IF name # None THEN name ELSE IF fc = 1 THEN DefaultFolderName ELSE NewFolderName(fc - 1)
      id == sp.next_item
      rec == [ name |-> nm, widget |-> nm, item |-> id, items |-> << >> ]
      idx == FolderIdx(sp.folders, nm)
  IN [ sp EXCEPT !.folder_counter = fc,
                 !.next_item = id + 1,
                 !.history_list = Append(@, id),
                 !.items = (id :> HeaderItem(nm)) @@ @,
                 !.folders = IF idx = 0 THEN Append(@, rec) ELSE [ @ EXCEPT ![idx] = rec ],
                 !.active_folder = IF @ = None THEN nm ELSE @ ]

\* save_chat_to_folder(folder_name, title, save_json) at time t: the new panel, the new disk, the new item
save_chat_to_folder(sp, dk, folder_name, title, save_json, t) ==
  LET sp1 == IF FolderIdx(sp.folders, folder_name) = 0 THEN create_folder(sp, folder_name) ELSE sp
      idx == FolderIdx(sp1.folders, folder_name)
      folder == sp1.folders[idx]
      chat_title == IF title # NoTitle THEN title ELSE << StampNewChat(t) >>
      id == sp1.next_item
      row == (IndexOf(sp1.history_list, folder.item) - 1) + Len(folder.items) + 1
      sp2 == [ sp1 EXCEPT !.next_item = id + 1,
                          !.items = (id :> ChatItem(folder_name, chat_title)) @@ @,
                          !.history_list = InsertAt(@, row, id),
                          !.folders = [ @ EXCEPT ![idx].items = Append(@, id) ] ]
      folder_path == DirPath(folder_name)
      chat_file == ChatPath(folder_name, sanitize_filename(chat_title, t))
      dk1 == IF save_json /\ MkdirOk(dk, folder_path)
             THEN WriteFile(Mkdir(dk, folder_path), chat_file,
                            DictDoc(chat_title, None, << >>, OwnerAt(dk, chat_file) \cup { id }))
             ELSE dk
  IN [ sp |-> sp2, disk |-> dk1, item |-> id ]

\* the file rename_chat picks for old_title; the set holds every file the directory
\* listing may yield first, and is empty when no file is found
rename_chat_chosen(dk, folder_name, old_title, new_title, t) ==
  LET folder_path == DirPath(folder_name)
      exact == ChatPath(folder_name, old_title)
      sanitized == ChatPath(folder_name, sanitize_filename(old_title, t))
      all_jsons == Glob(dk, folder_path)
      norm_new == Lower(sanitize_filename(new_title, t))
      norm_old == Lower(sanitize_filename(old_title, t))
      by_stem == { p \in all_jsons : LET stem_norm == Lower(sanitize_filename(p[2], t))
                                     IN stem_norm = norm_new \/ stem_norm = norm_old }
      by_title == { p \in all_jsons : FileAt(dk, p).kind = "dict" /\ FileAt(dk, p).title = old_title }
  IN IF FileExists(dk, exact) THEN { exact }
     ELSE IF FileExists(dk, sanitized) THEN { sanitized }
     ELSE IF by_stem # {} THEN by_stem
     ELSE by_title

\* lines 911-929: rename the chosen file to the sanitized new title
rename_chat_target(dk, chosen, folder_name, new_title, t) ==
  LET new_stem == sanitize_filename(new_title, t)
      target == ChatPath(folder_name, new_stem)
  IN IF FileExists(dk, target) /\ target # chosen
     THEN ChatPath(folder_name, new_stem \o << "_", StampRename(t) >>)
     ELSE target

\* rename_chat(item, old_title, new_title): the disks it may leave
rename_chat(sp, dk, item, old_title, new_title, t) ==
  LET folder_name == sp.items[item].data[1]
  IN IF ~DirExists(dk, DirPath(folder_name)) THEN { dk }
     ELSE LET chosen == rename_chat_chosen(dk, folder_name, old_title, new_title, t)
          IN IF chosen = {} THEN { dk }
             ELSE { IF rename_chat_target(dk, c, folder_name, new_title, t) = c THEN dk
                    ELSE RenameFile(dk, c, rename_chat_target(dk, c, folder_name, new_title, t)) : c \in chosen }

\* ChatItemWidget.finish_rename with the editor holding text: the panel after it
finish_rename_panel(sp, item, text) ==
  LET old_title == sp.items[item].label
      new_title == IF Strip(text) # << >> THEN Strip(text) ELSE old_title
  IN [ sp EXCEPT !.items[item].data = << sp.items[item].folder_name, new_title >>,
                 !.items[item].label = new_title ]

RECURSIVE SetFolderOfItems(_, _, _)
SetFolderOfItems(its, xs, new_name) ==
  IF xs = << >> THEN its
  ELSE SetFolderOfItems([ its EXCEPT ![xs[1]].data = << new_name, @[2] >> ], Tail(xs), new_name)

\* update_folder_name(item, old_name, new_name): the new panel and the new disk
update_folder_name(sp, dk, item, old_name, new_name) ==
  IF new_name = << >> \/ new_name = old_name \/ new_name \in FolderNames(sp)
  THEN [ sp |-> sp, disk |-> dk ]
  ELSE
    LET idx == FolderIdx(sp.folders, old_name)
        moved == sp.folders[idx]
        rec == [ moved EXCEPT !.name = new_name ]
        its1 == [ sp.items EXCEPT ![moved.item].data = << new_name, NoTitle >> ]
        its2 == SetFolderOfItems(its1, moved.items, new_name)
        old_path == DirPath(old_name)
        new_path == DirPath(new_name)
    IN [ sp |-> [ sp EXCEPT !.folders = Append(RemoveAt(@, idx), rec),
                            !.items = its2,
                            !.active_folder = IF @ = old_name THEN new_name ELSE @ ],
         disk |-> IF DirExists(dk, old_path) /\ RenameDirOk(dk, old_path, new_path)
                  THEN RenameDir(dk, old_path, new_path) ELSE dk ]

\* rename_folder_inline(item), the editor left holding text: finish_inline_edit, then update_folder_name
rename_folder_inline(sp, dk, item, text) ==
  LET folder_name == sp.items[item].data[1]
      idx == FolderIdx(sp.folders, folder_name)
      new_name == Strip(text)
      sp1 == IF new_name # << >> THEN [ sp EXCEPT !.folders[idx].widget = new_name ] ELSE sp
  IN IF idx = 0 THEN [ sp |-> sp, disk |-> dk ]
     ELSE update_folder_name(sp1, dk, item, folder_name, sp1.folders[idx].widget)

\* delete_folder(item)
delete_folder(sp, dk, item) ==
  LET folder_name == sp.items[item].data[1]
      idx == FolderIdx(sp.folders, folder_name)
      folder == sp.folders[idx]
      fs == RemoveAt(sp.folders, idx)
      hl == RemoveFirst(TakeItems(sp.history_list, folder.items), folder.item)
      folder_path == DirPath(folder_name)
  IN IF idx = 0 THEN [ sp |-> sp, disk |-> dk ]
     ELSE [ sp |-> [ sp EXCEPT !.folders = fs,
                               !.history_list = hl,
                               !.items = DropItems(@, (DOMAIN @) \ Range(hl)),
                               !.active_folder = IF @ = folder_name
                                                 THEN (IF fs # << >> THEN Last(fs).name ELSE None)
                                                 ELSE @ ],
            disk |-> IF DirExists(dk, folder_path) THEN RmTree(dk, folder_path) ELSE dk ]

\* delete_chat(item) at time t
delete_chat(sp, dk, item, t) ==
  LET folder_name == sp.items[item].data[1]
      chat_title == sp.items[item].data[2]
      idx == FolderIdx(sp.folders, folder_name)
      chat_file == ChatPath(folder_name, chat_title)
      chat_file_alt == ChatPath(folder_name, sanitize_filename(chat_title, t))
  IN IF idx = 0 \/ item \notin Range(sp.folders[idx].items) THEN [ sp |-> sp, disk |-> dk ]
     ELSE [ sp |-> [ sp EXCEPT !.folders[idx].items = RemoveFirst(@, item),
                               !.history_list = RemoveFirst(@, item),
                               !.items = DropItems(@, { item }) ],
            disk |-> IF FileExists(dk, chat_file) THEN Unlink(dk, chat_file)
                     ELSE IF FileExists(dk, chat_file_alt) THEN Unlink(dk, chat_file_alt)
                     ELSE dk ]

\* on_new_chat, up to the new_chat_requested signal
on_new_chat(sp) ==
  IF sp.active_folder # None THEN sp
  ELSE IF sp.folders # << >> THEN [ sp EXCEPT !.active_folder = Last(sp.folders).name ]
  ELSE create_folder(sp, None)

\* on_new_folder
on_new_folder(sp, dk) ==
  LET fc == sp.folder_counter + 1
      folder_name == NewFolderName(fc)
      sp1 == create_folder([ sp EXCEPT !.folder_counter = fc ], folder_name)
  IN [ sp |-> [ sp1 EXCEPT !.active_folder = folder_name ],
       disk |-> Mkdir(dk, DirPath(folder_name)) ]

RECURSIVE load_files(_, _, _, _, _)
\* the inner loop of load_chat_history over the sorted files of one folder
load_files(st, folder_name, stems, i, t) ==
  IF i > Len(stems) THEN st
  ELSE LET path == << DirPath(folder_name), stems[i] >>
           doc == FileAt(st.disk, path)
           chat_title == IF doc.kind = "dict" /\ doc.title # MissingTitle THEN doc.title ELSE stems[i]
           r == save_chat_to_folder(st.sp, st.disk, folder_name, chat_title, FALSE, t)
       IN IF doc.kind \in { "dict", "list" }
          THEN load_files([ sp |-> r.sp, disk |-> WriteFile(st.disk, path, [ doc EXCEPT !.owner = { r.item } ]) ],
                          folder_name, stems, i + 1, t)
          ELSE load_files(st, folder_name, stems, i + 1, t)

RECURSIVE load_folders(_, _, _, _)
\* the outer loop of load_chat_history over the sorted directories of storage_root
load_folders(st, names, i, t) ==
  IF i > Len(names) THEN st
  ELSE LET folder_name == names[i]
           st1 == [ st EXCEPT !.sp = create_folder(st.sp, folder_name) ]
       IN load_folders(load_files(st1, folder_name, SortNames(DOMAIN st.disk[<< folder_name >>]), 1, t),
                       names, i + 1, t)

load_chat_history(sp, dk, t) ==
  load_folders([ sp |-> sp, disk |-> dk ], SortNames({ p[1] : p \in { q \in DOMAIN dk : Len(q) = 1 } }), 1, t)

\* Slide_Side_Panel.__init__: init_ui creates the default folder when storage_root
\* is empty, then load_chat_history runs
StartPanel(dk, t) ==
  LET sp0 == IF \A q \in DOMAIN dk : q = << >> THEN create_folder(FreshPanel, None) ELSE FreshPanel
  IN load_chat_history(sp0, dk, t)

\* ----------------------------------------------------------- the chat controller
UserMsg(text) == [ role |-> "user", text |-> text, images |-> << >>, model |-> NoModel ]
AssistantMsg(text, m) == [ role |-> "assistant", text |-> text, images |-> << >>, model |-> m ]

\* resolve_chat_file with the 'title' field looked up before the stems
resolve_chat_file_title_first(dk, folder, chat_title) ==
  LET folder_path == DirPath(folder)
      cand_exact == ChatPath(folder, chat_title)
      cand_sanitized == ChatPath(folder, resolve_sanitize(chat_title))
      all_jsons == Glob(dk, folder_path)
      target_norm == Lower(resolve_sanitize(chat_title))
      by_stem == { p \in all_jsons : Lower(resolve_sanitize(p[2])) = target_norm }
      by_title == { p \in all_jsons : FileAt(dk, p).kind = "dict" /\ FileAt(dk, p).title = chat_title }
  IN IF ~DirExists(dk, folder_path) THEN { cand_exact }
     ELSE IF FileExists(dk, cand_exact) THEN { cand_exact }
     ELSE IF FileExists(dk, cand_sanitized) THEN { cand_sanitized }
     ELSE IF by_title # {} THEN by_title
     ELSE IF by_stem # {} THEN by_stem
     ELSE { cand_exact }

\* resolve_chat_file(folder, chat_title): every path it may return
resolve_chat_file(dk, folder, chat_title) ==
  LET folder_path == DirPath(folder)
      cand_exact == ChatPath(folder, chat_title)
      cand_sanitized == ChatPath(folder, resolve_sanitize(chat_title))
      all_jsons == Glob(dk, folder_path)
      target_norm == Lower(resolve_sanitize(chat_title))
      by_stem == { p \in all_jsons : Lower(resolve_sanitize(p[2])) = target_norm }
      by_title == { p \in all_jsons : FileAt(dk, p).kind = "dict" /\ FileAt(dk, p).title = chat_title }
  IN IF ~DirExists(dk, folder_path) THEN { cand_exact }
     ELSE IF FileExists(dk, cand_exact) THEN { cand_exact }
     ELSE IF FileExists(dk, cand_sanitized) THEN { cand_sanitized }
     ELSE IF by_stem # {} THEN by_stem
     ELSE IF by_title # {} THEN by_title
     ELSE { cand_exact }

\* _ensure_chat_file at time t: the new panel, disk and current_chat_file
ensure_chat_file(sp, dk, ccf, t) ==
  IF ccf # None /\ FileExists(dk, ccf) THEN [ sp |-> sp, disk |-> dk, ccf |-> ccf ]
  ELSE LET folder == IF sp.active_folder # None THEN sp.active_folder ELSE DefaultFolderName
           title == << StampEnsure(t) >>
           file_path == ChatPath(folder, title)
           dk1 == WriteFile(MkdirParents(dk, DirPath(folder)), file_path, DictDoc(title, folder, << >>, OwnerAt(dk, file_path)))
           r == save_chat_to_folder(sp, dk1, folder, title, TRUE, t)
       IN [ sp |-> r.sp, disk |-> r.disk, ccf |-> file_path ]

\* _append_record(role, content, model_name): the new chat_history and disk
append_record(dk, ccf, history, msg) ==
  IF ccf = None THEN [ history |-> history, disk |-> dk ]
  ELSE LET h == Append(history, msg)
       IN [ history |-> h,
            disk |-> IF WriteOk(dk, ccf) THEN WriteFile(dk, ccf, ListDoc(h, OwnerAt(dk, ccf))) ELSE dk ]

\* _history_to_messages
history_to_messages(history) ==
  << [ role |-> "system", content |-> "system prompt" ] >>
    \o [ i \in 1..Len(history) |-> [ role |-> history[i].role, content |-> history[i].text ] ]

\* the same records, appended newest first
opened_history_newest_first(messages, m) ==
  [ i \in 1..Len(messages) |->
      [ role |-> messages[Len(messages) + 1 - i].role, text |-> messages[Len(messages) + 1 - i].text,
        images |-> messages[Len(messages) + 1 - i].images,
        model |-> IF messages[Len(messages) + 1 - i].model # NoModel
                  THEN messages[Len(messages) + 1 - i].model ELSE m ] ]

\* the records handle_open_chat_file builds from the messages of a file
opened_history(messages, m) ==
  [ i \in 1..Len(messages) |->
      [ role |-> messages[i].role, text |-> messages[i].text, images |-> messages[i].images,
        model |-> IF messages[i].model # NoModel THEN messages[i].model ELSE m ] ]
Bubble(id, is_user, text) == [ id |-> id, is_user |-> is_user, text |-> text ]
opened_bubbles(messages) ==
  [ i \in 1..Len(messages) |-> Bubble(0, messages[i].role = "user", messages[i].text) ]

\* ------------------------------------------------------------------ the worker
NoneTask == [ id |-> 0, msgs |-> << >>, bubble |-> 0 ]
Config(key, url, m) == [ api_key |-> key, base_url |-> url, model |-> m ]
InitConfig == Config("key1", "url1", "model1")
\* last_op records the operations the properties below speak about; any other
\* operation is recorded as "other"
TrackedOps == { "rename_chat", "open_chat" }
Op(name, item, arg) ==
  IF name \in TrackedOps THEN [ op |-> name, item |-> item, arg |-> arg ]
  ELSE [ op |-> "other", item |-> 0, arg |-> << >> ]

\* no argument of requests.post evaluated yet
NoRequest == [ base_url |-> "?", api_key |-> "?" ]
\* AIChatWorker.__init__: no update_config call yet
ConfigStarted(req, cop) ==
  /\ req = NoRequest
  /\ cop = [ args |-> InitConfig, returned |-> InitConfig, at_get |-> InitConfig ]

\* AIChatWorker.__init__ and start()
WorkerStarted(q, r, cfg, pc, tk, ib, st, ad, up) ==
  /\ q = << >>
  /\ r = TRUE
  /\ cfg = InitConfig
  /\ pc = "head"
  /\ tk = NoneTask
  /\ ib = << >>
  /\ st = << >>
  /\ ad = 0
  /\ up = "run"

\* ------------------------------------------------------------- TokenManager
\* datetime.now().strftime("%Y-%m-%d") on day d
DateStr(d) == "2025-01-0" \o ToString(d)
NoDate == "(no date key)"
\* a value stored under "total" or "today": an integer, a float (the integer
\* part is kept in val), a string that is not a number, or no such key
IntVal(n) == [ type |-> "int", val |-> n ]
FloatVal(n) == [ type |-> "float", val |-> n ]
TextVal == [ type |-> "text", val |-> 0 ]
AbsentVal == [ type |-> "absent", val |-> 0 ]
\* token_stats.json: missing, a JSON dict, a JSON list, or text that is no JSON
StatsDict(total, today, date) == [ kind |-> "dict", total |-> total, today |-> today, date |-> date ]
StatsMissing == [ kind |-> "missing", total |-> AbsentVal, today |-> AbsentVal, date |-> NoDate ]
StatsCorrupt == [ kind |-> "corrupt", total |-> AbsentVal, today |-> AbsentVal, date |-> NoDate ]
StatsList == [ kind |-> "list", total |-> AbsentVal, today |-> AbsentVal, date |-> NoDate ]

TokenState(total, today, date) == [ total_tokens |-> total, today_tokens |-> today, last_date |-> date ]
\* save_data: the file json.dump leaves
save_data(tm) == StatsDict(IntVal(tm.total_tokens), IntVal(tm.today_tokens), tm.last_date)
reset_to_zero(d) ==
  LET tm == TokenState(0, 0, DateStr(d))
  IN [ tm |-> tm, file |-> save_data(tm) ]
_check_date_reset(tm, file, d) ==
  IF DateStr(d) # tm.last_date
  THEN LET tm1 == [ tm EXCEPT !.today_tokens = 0, !.last_date = DateStr(d) ]
       IN [ tm |-> tm1, file |-> save_data(tm1) ]
  ELSE [ tm |-> tm, file |-> file ]

\* load_data that converts stored floats with int() instead of resetting
load_data_keep_floats(tm, file, d) ==
  IF file.kind = "missing" THEN [ tm |-> tm, file |-> file ]
  ELSE IF file.kind # "dict" THEN reset_to_zero(d)
  ELSE LET raw_total == IF file.total.type = "absent" THEN IntVal(0) ELSE file.total
           raw_today == IF file.today.type = "absent" THEN IntVal(0) ELSE file.today
       IN IF raw_total.type = "text" \/ raw_today.type = "text" THEN reset_to_zero(d)
          ELSE _check_date_reset(TokenState(raw_total.val, raw_today.val,
                                            IF file.date = NoDate THEN tm.last_date ELSE file.date),
                                 file, d)

\* load_data on the TokenManager tm that __init__ has filled with its defaults:
\* json.load raises on text that is no JSON, data.get on a list, int() on a
\* string that is no number
load_data(tm, file, d) ==
  IF file.kind = "missing" THEN [ tm |-> tm, file |-> file ]
  ELSE IF file.kind # "dict" THEN reset_to_zero(d)
  ELSE LET raw_total == IF file.total.type = "absent" THEN IntVal(0) ELSE file.total
           raw_today == IF file.today.type = "absent" THEN IntVal(0) ELSE file.today
       IN IF raw_total.type = "float" \/ raw_today.type = "float" THEN reset_to_zero(d)
          ELSE IF raw_total.type = "text" \/ raw_today.type = "text" THEN reset_to_zero(d)
          ELSE _check_date_reset(TokenState(raw_total.val, raw_today.val,
                                            IF file.date = NoDate THEN tm.last_date ELSE file.date),
                                 file, d)

\* TokenManager.__init__
TokenManagerInit(file, d) == load_data(TokenState(0, 0, DateStr(d)), file, d)

\* add_usage that adds first and checks the date afterwards
add_usage_reset_after(tm, file, usage_amount, d) ==
  LET tm1 == [ tm EXCEPT !.total_tokens = @ + usage_amount, !.today_tokens = @ + usage_amount ]
      c == _check_date_reset(tm1, file, d)
  IN [ tm |-> c.tm, file |-> save_data(c.tm) ]

\* add_usage(usage_amount), usage_amount an int (Signal(int))
add_usage(tm, file, usage_amount, d) ==
  LET c == _check_date_reset(tm, file, d)
      tm1 == [ c.tm EXCEPT !.total_tokens = @ + usage_amount, !.today_tokens = @ + usage_amount ]
  IN [ tm |-> tm1, file |-> save_data(tm1) ]

TokenOp(name, tm, file, d, n) == [ op |-> name, tm |-> tm, file |-> file, date |-> d, usage |-> n ]
\* Operation_Chat_Controller.__init__: TokenManager(), then handle_token_update(0)
ControllerTokens(file, d) ==
  LET l == TokenManagerInit(file, d)
  IN add_usage(l.tm, l.file, 0, d)
\* the token statistics after the first start, without a stats file
TokensStarted(tm, file, d, top) ==
  /\ d = 1
  /\ tm = ControllerTokens(StatsMissing, 1).tm
  /\ file = ControllerTokens(StatsMissing, 1).file
  /\ top = TokenOp("add_usage", TokenManagerInit(StatsMissing, 1).tm, StatsMissing, 1, 0)

Init ==
  /\ TokensStarted(token_manager, stats_file, current_date, token_op)
  /\ ConfigStarted(request, config_op)
  /\ disk = EmptyDisk
  /\ now = 1
  /\ side_panel = StartPanel(EmptyDisk, 1).sp
  /\ current_chat_file = None
  /\ chat_history = << >>
  /\ display = << >>
  /\ model = InitConfig.model
  /\ WorkerStarted(queue, running, worker_cfg, wpc, task, inbox, sent, added, ui_pc)
  /\ msgs_sent = 0
  /\ restarts = 0
  /\ ops = 0
  /\ last_op = Op("init", 0, << >>)

\* add_task(msgs, bubble)
add_task(q, t) == Append(q, t)
\* a queue that hands out the newest task first
queue_get_lifo(q) == [ task |-> Last(q), queue |-> Front(q) ]
\* queue.get(): the task handed out and the queue left
queue_get(q) == [ task |-> Head(q), queue |-> Tail(q) ]

\* run(): `while self._running`
WorkerHead ==
  /\ wpc = "head"
  /\ wpc' = IF running THEN "get" ELSE "exited"
  /\ last_op' = Op("worker_head", 0, << >>)
  /\ UNCHANGED << uiVars, model, queue, running, worker_cfg, task, inbox, sent, added, ui_pc >>
  /\ UNCHANGED tokenVars
  /\ UNCHANGED configVars

\* run(): queue.get(timeout=0.5) returns a task, or None and the loop breaks
WorkerGet ==
  /\ wpc = "get"
  /\ queue # << >>
  /\ task' = queue_get(queue).task
  /\ queue' = queue_get(queue).queue
  /\ wpc' = IF task' = NoneTask THEN "exited" ELSE "post"
  /\ last_op' = Op("worker_get", 0, << >>)
  /\ config_op' = [ config_op EXCEPT !.at_get = config_op.returned ]
  /\ UNCHANGED << uiVars, model, running, worker_cfg, inbox, sent, added, ui_pc, request >>
  /\ UNCHANGED tokenVars

\* run(): queue.get raises Empty after the timeout, `continue`
WorkerTimeout ==
  /\ wpc = "get"
  /\ queue = << >>
  /\ wpc' = "head"
  /\ last_op' = Op("worker_timeout", 0, << >>)
  /\ UNCHANGED << uiVars, model, queue, running, worker_cfg, task, inbox, sent, added, ui_pc >>
  /\ UNCHANGED tokenVars
  /\ UNCHANGED configVars

\* run(): requests.post(self.base_url, ...) is issued
WorkerPost ==
  /\ wpc = "post"
  /\ sent' = Append(sent, [ task |-> task.id, msgs |-> task.msgs, cfg |-> worker_cfg, state |-> "in_flight" ])
  /\ wpc' = "request"
  /\ last_op' = Op("worker_post", task.id, << >>)
  /\ UNCHANGED << uiVars, model, queue, running, worker_cfg, task, inbox, added, ui_pc >>
  /\ UNCHANGED tokenVars
  /\ UNCHANGED configVars

\* run(): the request returns or raises; finished is emitted while _running
WorkerResponse(outcome) ==
  /\ wpc = "request"
  /\ inbox' = IF running
              THEN Append(inbox, [ raw_text |-> outcome, bubble |-> task.bubble, task |-> task.id ])
              ELSE inbox
  /\ sent' = [ sent EXCEPT ![Len(sent)].state = "returned" ]
  /\ wpc' = "head"
  /\ last_op' = Op("worker_response", task.id, << >>)
  /\ UNCHANGED << uiVars, model, queue, running, worker_cfg, task, added, ui_pc >>
  /\ UNCHANGED tokenVars
  /\ UNCHANGED configVars

\* ------------------------------------------------------------- user operations
ChatItems(sp) == { i \in DOMAIN sp.items : sp.items[i].data[2] # NoTitle }
HeaderItems(sp) == { i \in DOMAIN sp.items : sp.items[i].data[2] = NoTitle }

\* handle_new_chat, on the panel on_new_chat left
handle_new_chat(sp, dk, t) ==
  LET chat_title == << StampNewChat(t) >>
      folder_name == IF sp.active_folder # None THEN sp.active_folder ELSE DefaultFolderName
      chat_file == ChatPath(folder_name, chat_title)
      r == save_chat_to_folder(sp, dk, folder_name, chat_title, FALSE, t)
      doc == DictDoc(chat_title, folder_name, << >>, OwnerAt(dk, chat_file) \cup { r.item })
  IN [ sp |-> r.sp,
       disk |-> WriteFile(MkdirParents(dk, DirPath(folder_name)), chat_file, doc),
       ccf |-> chat_file ]

\* "New chat": on_new_chat -> new_chat_requested -> handle_new_chat
NewChat ==
  /\ ops < MaxOps /\ ops' = ops + 1
  /\ LET r == handle_new_chat(on_new_chat(side_panel), disk, now)
     IN /\ r.sp.next_item <= MaxItems + 1
        /\ side_panel' = r.sp
        /\ disk' = r.disk
        /\ current_chat_file' = r.ccf
        /\ display' = << >>
        /\ last_op' = Op("new_chat", side_panel'.next_item - 1, << >>)
        /\ UNCHANGED << chat_history, model, now, msgs_sent, restarts, workerVars >>
  /\ UNCHANGED tokenVars
  /\ UNCHANGED configVars

\* "New folder": on_new_folder
NewFolder ==
  /\ ops < MaxOps /\ ops' = ops + 1
  /\ LET r == on_new_folder(side_panel, disk)
     IN /\ r.sp.next_item <= MaxItems + 1
        /\ side_panel' = r.sp
        /\ disk' = r.disk
        /\ last_op' = Op("new_folder", side_panel'.next_item - 1, << >>)
        /\ UNCHANGED << current_chat_file, chat_history, display, model, now, msgs_sent, restarts, workerVars >>
  /\ UNCHANGED tokenVars
  /\ UNCHANGED configVars

\* on_send_clicked -> send_message(text)
SendMessage(text) ==
  /\ ops < MaxOps /\ ops' = ops + 1
  /\ msgs_sent < MaxMsgs
  /\ last_op' = Op("send_message", 0, << text >>)
  /\ IF text = ""
     THEN UNCHANGED << side_panel, disk, current_chat_file, chat_history, display, now, msgs_sent, restarts, model, workerVars >>
     ELSE LET e == ensure_chat_file(side_panel, disk, current_chat_file, now)
              a == append_record(e.disk, e.ccf, chat_history, UserMsg(text))
              ai_bubble == msgs_sent + 1
          IN /\ e.sp.next_item <= MaxItems + 1
             /\ side_panel' = e.sp
             /\ current_chat_file' = e.ccf
             /\ chat_history' = a.history
             /\ disk' = a.disk
             /\ display' = display \o << Bubble(0, TRUE, text), Bubble(ai_bubble, FALSE, "Thinking...") >>
             /\ queue' = add_task(queue, [ id |-> added + 1, msgs |-> history_to_messages(a.history), bubble |-> ai_bubble ])
             /\ added' = added + 1
             /\ msgs_sent' = msgs_sent + 1
             /\ UNCHANGED << model, now, restarts, running, worker_cfg, wpc, task, inbox, sent, ui_pc >>
  /\ UNCHANGED tokenVars
  /\ UNCHANGED configVars

\* the finished signal reaches the UI thread: _on_ai_reply(reply, ai_bubble)
OnAiReply ==
  /\ inbox # << >>
  /\ LET reply == Head(inbox)
         a == append_record(disk, current_chat_file, chat_history, AssistantMsg(reply.raw_text, model))
     IN /\ chat_history' = a.history
        /\ disk' = a.disk
        /\ display' = [ i \in 1..Len(display) |->
                          IF display[i].id = reply.bubble THEN [ display[i] EXCEPT !.text = reply.raw_text ] ELSE display[i] ]
        /\ last_op' = Op("on_ai_reply", reply.task, << >>)
  /\ inbox' = Tail(inbox)
  /\ UNCHANGED << side_panel, current_chat_file, model, now, msgs_sent, restarts, ops, queue, running, worker_cfg, wpc, task, sent, added, ui_pc >>
  /\ UNCHANGED tokenVars
  /\ UNCHANGED configVars

\* handle_open_chat_file that clears the chat window before it looks for the file
OpenChat_clear_first(item) ==
  /\ ops < MaxOps /\ ops' = ops + 1
  /\ item \in ChatItems(side_panel)
  /\ last_op' = Op("open_chat", item, << >>)
  /\ \E chat_file \in resolve_chat_file(disk, side_panel.items[item].data[1], side_panel.items[item].data[2]) :
       IF ~FileExists(disk, chat_file)
       THEN chat_history' = << >> /\ display' = << >> /\ UNCHANGED current_chat_file
       ELSE LET doc == FileAt(disk, chat_file)
                messages == IF doc.kind \in { "dict", "list" } THEN doc.messages ELSE << >>
            IN /\ current_chat_file' = chat_file
               /\ chat_history' = opened_history(messages, model)
               /\ display' = opened_bubbles(messages)
  /\ UNCHANGED << side_panel, disk, model, now, msgs_sent, restarts, workerVars >>
  /\ UNCHANGED tokenVars
  /\ UNCHANGED configVars

\* double click on a chat entry: handle_open_chat_file(folder, chat_title)
OpenChat(item) ==
  /\ ops < MaxOps /\ ops' = ops + 1
  /\ item \in ChatItems(side_panel)
  /\ last_op' = Op("open_chat", item, << >>)
  /\ \E chat_file \in resolve_chat_file(disk, side_panel.items[item].data[1], side_panel.items[item].data[2]) :
       IF ~FileExists(disk, chat_file)
       THEN UNCHANGED << current_chat_file, chat_history, display >>
       ELSE LET doc == FileAt(disk, chat_file)
                messages == IF doc.kind \in { "dict", "list" } THEN doc.messages ELSE << >>
            IN /\ current_chat_file' = chat_file
               /\ chat_history' = opened_history(messages, model)
               /\ display' = opened_bubbles(messages)
  /\ UNCHANGED << side_panel, disk, model, now, msgs_sent, restarts, workerVars >>
  /\ UNCHANGED tokenVars
  /\ UNCHANGED configVars

\* inline rename of a chat entry: ChatItemWidget.finish_rename -> rename_chat
RenameChat(item, text) ==
  /\ ops < MaxOps /\ ops' = ops + 1
  /\ item \in ChatItems(side_panel)
  /\ side_panel' = finish_rename_panel(side_panel, item, text)
  /\ \E dk \in rename_chat(side_panel', disk, item, side_panel.items[item].label, side_panel'.items[item].label, now) :
       disk' = dk
  /\ last_op' = Op("rename_chat", item, text)
  /\ UNCHANGED << current_chat_file, chat_history, display, model, now, msgs_sent, restarts, workerVars >>
  /\ UNCHANGED tokenVars
  /\ UNCHANGED configVars

\* inline rename of a folder: rename_folder_inline -> update_folder_name
RenameFolder(item, text) ==
  /\ ops < MaxOps /\ ops' = ops + 1
  /\ item \in HeaderItems(side_panel)
  /\ LET r == rename_folder_inline(side_panel, disk, item, text)
     IN side_panel' = r.sp /\ disk' = r.disk
  /\ last_op' = Op("rename_folder", item, text)
  /\ UNCHANGED << current_chat_file, chat_history, display, model, now, msgs_sent, restarts, workerVars >>
  /\ UNCHANGED tokenVars
  /\ UNCHANGED configVars

\* context menu "Delete" on a folder: delete_folder(item)
DeleteFolder(item) ==
  /\ ops < MaxOps /\ ops' = ops + 1
  /\ item \in HeaderItems(side_panel)
  /\ LET r == delete_folder(side_panel, disk, item)
     IN side_panel' = r.sp /\ disk' = r.disk
  /\ last_op' = Op("delete_folder", item, << >>)
  /\ UNCHANGED << current_chat_file, chat_history, display, model, now, msgs_sent, restarts, workerVars >>
  /\ UNCHANGED tokenVars
  /\ UNCHANGED configVars

\* context menu "Delete" on a chat entry: delete_chat(item)
DeleteChat(item) ==
  /\ ops < MaxOps /\ ops' = ops + 1
  /\ item \in ChatItems(side_panel)
  /\ LET r == delete_chat(side_panel, disk, item, now)
     IN side_panel' = r.sp /\ disk' = r.disk
  /\ last_op' = Op("delete_chat", item, << >>)
  /\ UNCHANGED << current_chat_file, chat_history, display, model, now, msgs_sent, restarts, workerVars >>
  /\ UNCHANGED tokenVars
  /\ UNCHANGED configVars

\* click on a folder header: on_chat_item_clicked makes it the active folder
ClickFolder(item) ==
  /\ ops < MaxOps /\ ops' = ops + 1
  /\ item \in HeaderItems(side_panel)
  /\ side_panel' = [ side_panel EXCEPT !.active_folder = side_panel.items[item].data[1] ]
  /\ last_op' = Op("click_folder", item, << >>)
  /\ UNCHANGED << disk, current_chat_file, chat_history, display, model, now, msgs_sent, restarts, workerVars >>
  /\ UNCHANGED tokenVars
  /\ UNCHANGED configVars

\* the wall clock reaches the next second
Tick ==
  /\ now < MaxTime
  /\ now' = now + 1
  /\ last_op' = Op("tick", 0, << >>)
  /\ UNCHANGED << side_panel, disk, current_chat_file, chat_history, display, model, msgs_sent, restarts, ops, workerVars >>
  /\ UNCHANGED tokenVars
  /\ UNCHANGED configVars

\* the application is closed and started again on the same ChatHistory directory
Restart ==
  /\ ops < MaxOps /\ ops' = ops + 1
  /\ restarts < MaxRestarts
  /\ restarts' = restarts + 1
  /\ LET r == StartPanel(disk, now)
     IN side_panel' = r.sp /\ disk' = r.disk
  /\ current_chat_file' = None
  /\ chat_history' = << >>
  /\ display' = << >>
  /\ model' = InitConfig.model
  /\ WorkerStarted(queue', running', worker_cfg', wpc', task', inbox', sent', added', ui_pc')
  /\ last_op' = Op("restart", 0, << >>)
  /\ UNCHANGED << now, msgs_sent >>
  /\ UNCHANGED tokenVars
  /\ UNCHANGED configVars

Next ==
  \/ NewChat
  \/ NewFolder
  \/ \E text \in TextInputs : SendMessage(text)
  \/ OnAiReply
  \/ \E item \in 1..MaxItems : OpenChat(item)
  \/ \E item \in 1..MaxItems, text \in TitleInputs : RenameChat(item, text)
  \/ \E item \in 1..MaxItems, text \in FolderInputs \cup { << >> } : RenameFolder(item, text)
  \/ \E item \in 1..MaxItems : DeleteFolder(item)
  \/ \E item \in 1..MaxItems : DeleteChat(item)
  \/ \E item \in 1..MaxItems : ClickFolder(item)
  \/ Tick
  \/ Restart
  \/ WorkerHead
  \/ WorkerGet
  \/ WorkerPost
  \/ \E outcome \in { "reply", "error" } : WorkerResponse(outcome)

Spec == Init /\ [][Next]_vars

\* ------------------------------------------------ the worker and its callers alone
Urls == { "url1", "url2" }

\* the UI thread calls add_task(msgs, bubble)
AddTask ==
  /\ ui_pc \in { "run", "stopped" }
  /\ added < MaxTasks
  /\ queue' = add_task(queue, [ id |-> added + 1, msgs |-> << >>, bubble |-> added + 1 ])
  /\ added' = added + 1
  /\ last_op' = Op("add_task", added + 1, << >>)
  /\ UNCHANGED << uiVars, model, running, worker_cfg, wpc, task, inbox, sent, ui_pc >>
  /\ UNCHANGED tokenVars
  /\ UNCHANGED configVars

\* stop(): self._running = False
StopFlag ==
  /\ ui_pc = "run"
  /\ running' = FALSE
  /\ ui_pc' = "stop_put"
  /\ last_op' = Op("stop", 0, << >>)
  /\ UNCHANGED << uiVars, model, queue, worker_cfg, wpc, task, inbox, sent, added >>
  /\ UNCHANGED tokenVars
  /\ UNCHANGED configVars

\* stop(): self.queue.put(None)
StopPut ==
  /\ ui_pc = "stop_put"
  /\ queue' = add_task(queue, NoneTask)
  /\ ui_pc' = "stop_wait"
  /\ last_op' = Op("stop", 0, << >>)
  /\ UNCHANGED << uiVars, model, running, worker_cfg, wpc, task, inbox, sent, added >>
  /\ UNCHANGED tokenVars
  /\ UNCHANGED configVars

\* stop(): self.wait() returns once run() has returned
StopWait ==
  /\ ui_pc = "stop_wait"
  /\ wpc = "exited"
  /\ ui_pc' = "stopped"
  /\ last_op' = Op("stop", 0, << >>)
  /\ UNCHANGED << uiVars, model, queue, running, worker_cfg, wpc, task, inbox, sent, added >>
  /\ UNCHANGED tokenVars
  /\ UNCHANGED configVars

\* update_config(new_api_key, new_base_url, new_model)
UpdateConfig(url) ==
  /\ ui_pc \in { "run", "stopped" }
  /\ url # worker_cfg.base_url
  /\ worker_cfg' = Config("key of " \o url, url, "model of " \o url)
  /\ config_op' = [ config_op EXCEPT !.args = worker_cfg', !.returned = worker_cfg' ]
  /\ last_op' = Op("update_config", 0, << >>)
  /\ UNCHANGED << uiVars, model, queue, running, wpc, task, inbox, sent, added, ui_pc, request >>
  /\ UNCHANGED tokenVars

NextWorker ==
  \/ AddTask
  \/ StopFlag
  \/ StopPut
  \/ StopWait
  \/ \E url \in Urls : UpdateConfig(url)
  \/ WorkerHead
  \/ WorkerGet
  \/ WorkerTimeout
  \/ WorkerPost
  \/ \E outcome \in { "reply", "error" } : WorkerResponse(outcome)

SpecWorker == Init /\ [][NextWorker]_vars

\* the worker thread keeps running: the loop test, queue.get (it returns a task
\* or raises Empty after 0.5 s) and requests.post (timeout=60) all return
WorkerStep ==
  \/ WorkerHead
  \/ WorkerGet
  \/ WorkerTimeout
  \/ WorkerPost
  \/ \E outcome \in { "reply", "error" } : WorkerResponse(outcome)
SpecWorkerLive == SpecWorker /\ WF_vars(WorkerStep)

\* ------------------------------------ update_config, one attribute at a time
\* update_config assigns api_key, base_url and model one after the other on the
\* UI thread, and the worker thread reads base_url, api_key and model one after
\* the other when it evaluates the arguments of requests.post
ConfigOf(url) == Config("key of " \o url, url, "model of " \o url)

\* update_config: self.api_key = new_api_key
UpdateConfigKey(url) ==
  /\ ui_pc = "run"
  /\ ConfigOf(url) # config_op.returned
  /\ worker_cfg' = [ worker_cfg EXCEPT !.api_key = ConfigOf(url).api_key ]
  /\ config_op' = [ config_op EXCEPT !.args = ConfigOf(url) ]
  /\ ui_pc' = "cfg_url"
  /\ last_op' = Op("update_config", 0, << >>)
  /\ UNCHANGED << uiVars, model, queue, running, wpc, task, inbox, sent, added, request >>
  /\ UNCHANGED tokenVars

\* update_config: self.base_url = new_base_url
UpdateConfigUrl ==
  /\ ui_pc = "cfg_url"
  /\ worker_cfg' = [ worker_cfg EXCEPT !.base_url = config_op.args.base_url ]
  /\ ui_pc' = "cfg_model"
  /\ last_op' = Op("update_config", 0, << >>)
  /\ UNCHANGED << uiVars, model, queue, running, wpc, task, inbox, sent, added >>
  /\ UNCHANGED tokenVars
  /\ UNCHANGED configVars

\* update_config: self.model = new_model, and the call returns
UpdateConfigModel ==
  /\ ui_pc = "cfg_model"
  /\ worker_cfg' = [ worker_cfg EXCEPT !.model = config_op.args.model ]
  /\ config_op' = [ config_op EXCEPT !.returned = config_op.args ]
  /\ ui_pc' = "run"
  /\ last_op' = Op("update_config", 0, << >>)
  /\ UNCHANGED << uiVars, model, queue, running, wpc, task, inbox, sent, added, request >>
  /\ UNCHANGED tokenVars

\* run(): requests.post(self.base_url, ...: the first argument is evaluated
WorkerReadUrl ==
  /\ wpc = "post"
  /\ request' = [ request EXCEPT !.base_url = worker_cfg.base_url ]
  /\ wpc' = "post_key"
  /\ last_op' = Op("worker_post", task.id, << >>)
  /\ UNCHANGED << uiVars, model, queue, running, worker_cfg, task, inbox, sent, added, ui_pc, config_op >>
  /\ UNCHANGED tokenVars

\* run(): headers={"Authorization": f"Bearer {self.api_key}", ...} is evaluated
WorkerReadKey ==
  /\ wpc = "post_key"
  /\ request' = [ request EXCEPT !.api_key = worker_cfg.api_key ]
  /\ wpc' = "post_model"
  /\ last_op' = Op("worker_post", task.id, << >>)
  /\ UNCHANGED << uiVars, model, queue, running, worker_cfg, task, inbox, sent, added, ui_pc, config_op >>
  /\ UNCHANGED tokenVars

\* run(): json={"model": self.model, ...} is evaluated and the request issued
WorkerSend ==
  /\ wpc = "post_model"
  /\ sent' = Append(sent, [ task |-> task.id, msgs |-> task.msgs,
                            cfg |-> Config(request.api_key, request.base_url, worker_cfg.model),
                            state |-> "in_flight" ])
  /\ request' = NoRequest
  /\ wpc' = "request"
  /\ last_op' = Op("worker_post", task.id, << >>)
  /\ UNCHANGED << uiVars, model, queue, running, worker_cfg, task, inbox, added, ui_pc, config_op >>
  /\ UNCHANGED tokenVars

NextConfig ==
  \/ AddTask
  \/ \E url \in Urls : UpdateConfigKey(url)
  \/ UpdateConfigUrl
  \/ UpdateConfigModel
  \/ WorkerHead
  \/ WorkerGet
  \/ WorkerTimeout
  \/ WorkerReadUrl
  \/ WorkerReadKey
  \/ WorkerSend
  \/ \E outcome \in { "reply", "error" } : WorkerResponse(outcome)

SpecConfig == Init /\ [][NextConfig]_vars

\* ------------------------------------------------ the chat operations alone
\* new chat, send message, AI reply, open, rename and delete of chats, with the
\* worker and the clock running; no folder operation and no restart
NextChat ==
  \/ NewChat
  \/ \E text \in TextInputs : SendMessage(text)
  \/ OnAiReply
  \/ \E item \in 1..MaxItems : OpenChat(item)
  \/ \E item \in 1..MaxItems, text \in TitleInputs : RenameChat(item, text)
  \/ \E item \in 1..MaxItems : DeleteChat(item)
  \/ Tick
  \/ WorkerHead
  \/ WorkerGet
  \/ WorkerPost
  \/ \E outcome \in { "reply", "error" } : WorkerResponse(outcome)

SpecChat == Init /\ [][NextChat]_vars

\* ------------------------------------------ start on a given ChatHistory directory
\* the application starts on a ChatHistory directory it finds; chats are opened
\* and the application is restarted
LoadStems == { <<"b">>, <<"B">>, <<"b", "_">> }
StoredMsgs == << UserMsg("hi"), AssistantMsg("yo", "model9") >>
DocInputs ==
  { DictDoc(<<"b">>, None, << >>, {}), DictDoc(<<"x">>, None, StoredMsgs, {}),
    DictDoc(MissingTitle, None, StoredMsgs, {}), DictDoc(NoTitle, None, << >>, {}),
    ListDoc(StoredMsgs, {}), BadDoc }
\* the files of one directory: any of the stems, each with any of the documents
DirInputs == UNION { [ S -> DocInputs ] : S \in SUBSET LoadStems }
\* a second directory that is absent, empty, or holds a subdirectory with a file
SecondDirInputs ==
  { << >>,
    ( << <<"W">> >> :> NoFiles ),
    ( << <<"W">> >> :> NoFiles ) @@ ( << <<"W">>, <<"x">> >> :> ( <<"b">> :> ListDoc(StoredMsgs, {}) ) ) }
DiskInputs ==
  { EmptyDisk } \cup { ( << DefaultFolderName >> :> d ) @@ w @@ EmptyDisk : d \in DirInputs, w \in SecondDirInputs }

InitLoad ==
  /\ TokensStarted(token_manager, stats_file, current_date, token_op)
  /\ ConfigStarted(request, config_op)
  /\ \E dk \in DiskInputs :
       /\ disk = StartPanel(dk, 1).disk
       /\ side_panel = StartPanel(dk, 1).sp
  /\ now = 1
  /\ current_chat_file = None
  /\ chat_history = << >>
  /\ display = << >>
  /\ model = InitConfig.model
  /\ WorkerStarted(queue, running, worker_cfg, wpc, task, inbox, sent, added, ui_pc)
  /\ msgs_sent = 0
  /\ restarts = 0
  /\ ops = 0
  /\ last_op = Op("init", 0, << >>)

NextLoad ==
  \/ \E item \in 1..MaxItems : OpenChat(item)
  \/ Restart

SpecLoad == InitLoad /\ [][NextLoad]_vars

\* ------------------------------------------------ the token statistics alone
\* a TokenManager is constructed on a token_stats.json it finds; usage is added,
\* days pass and the program is started again on the file it left
MaxDay == 3
MaxTokens == 9
UsageInputs == { 0, 3 }
StatsInputs ==
  { StatsMissing, StatsCorrupt, StatsList }
    \cup { StatsDict(total, today, date) :
             total \in { IntVal(4), FloatVal(1), AbsentVal },
             today \in { IntVal(2), FloatVal(1), AbsentVal, TextVal },
             date \in { DateStr(1), DateStr(2), NoDate } }

InitTokens ==
  /\ ConfigStarted(request, config_op)
  /\ \E file \in StatsInputs, d \in 1..2 :
       /\ current_date = d
       /\ token_manager = TokenManagerInit(file, d).tm
       /\ stats_file = TokenManagerInit(file, d).file
       /\ token_op = TokenOp("load_data", TokenState(0, 0, DateStr(d)), file, d, 0)
  /\ disk = EmptyDisk
  /\ now = 1
  /\ side_panel = StartPanel(EmptyDisk, 1).sp
  /\ current_chat_file = None
  /\ chat_history = << >>
  /\ display = << >>
  /\ model = InitConfig.model
  /\ WorkerStarted(queue, running, worker_cfg, wpc, task, inbox, sent, added, ui_pc)
  /\ msgs_sent = 0
  /\ restarts = 0
  /\ ops = 0
  /\ last_op = Op("init", 0, << >>)

\* the program is started again: TokenManager()
TokenManagerStart ==
  /\ LET l == TokenManagerInit(stats_file, current_date)
     IN /\ token_manager' = l.tm
        /\ stats_file' = l.file
  /\ token_op' = TokenOp("load_data", TokenState(0, 0, DateStr(current_date)), stats_file, current_date, 0)
  /\ UNCHANGED << current_date, uiVars, model, workerVars, last_op, configVars >>

\* handle_token_update(current_usage) -> add_usage
AddUsage(n) ==
  /\ token_manager.total_tokens + n <= MaxTokens
  /\ LET a == add_usage(token_manager, stats_file, n, current_date)
     IN /\ token_manager' = a.tm
        /\ stats_file' = a.file
  /\ token_op' = TokenOp("add_usage", token_manager, stats_file, current_date, n)
  /\ UNCHANGED << current_date, uiVars, model, workerVars, last_op, configVars >>

\* midnight
NextDay ==
  /\ current_date < MaxDay
  /\ current_date' = current_date + 1
  /\ UNCHANGED << token_manager, stats_file, token_op, uiVars, model, workerVars, last_op, configVars >>

NextTokens ==
  \/ TokenManagerStart
  \/ \E n \in UsageInputs : AddUsage(n)
  \/ NextDay

SpecTokens == InitTokens /\ [][NextTokens]_vars

\* ============================================================== properties

\* requests whose response has not come back yet
InFlight == { i \in 1..Len(sent) : sent[i].state = "in_flight" }
Emitted == { inbox[i].task : i \in 1..Len(inbox) }

\* C1: the worker handles the tasks one at a time and in add_task order: the
\* k-th request posted is that of the k-th task added, at most one request is
\* in flight, and when a request is posted every earlier request has returned
\* and its result was emitted.
C1_OneAtATimeInOrder ==
  /\ Cardinality(InFlight) <= 1
  /\ \A i \in 1..Len(sent) : sent[i].task = i
  /\ \A i \in 1..(Len(sent) - 1) : sent[i].state = "returned" /\ sent[i].task \in Emitted

\* C1 witness: a second request is in flight while a third task waits in the queue
C1_Witness ==
  /\ Len(sent) = 2
  /\ sent[2].state = "in_flight"
  /\ queue # << >>
  /\ Head(queue).id = 3

\* ---------------------------------------------------------------------------
AllFiles(dk) == UNION { { << p, st >> : st \in DOMAIN dk[p] } : p \in DOMAIN dk }
\* the files created or loaded for side-panel item i
ItemFiles(dk, i) == { f \in AllFiles(dk) : i \in FileAt(dk, f).owner }
\* the document without its history field
Content(doc) == [ kind |-> doc.kind, title |-> doc.title, folder |-> doc.folder, messages |-> doc.messages ]
Data(sp, i) == sp.items[i].data

\* C2: every chat file on disk is a JSON document that holds both the chat's
\* title and its message list.
C2_FilesHoldTitleAndMessages ==
  \A f \in AllFiles(disk) : FileAt(disk, f).kind = "dict"

\* C3: the file of each chat entry of the side panel is named
\* sanitize_filename(<current title>).json and lies in the directory of the
\* entry's folder.
C3_FileNamedAfterTitle ==
  \A i \in ChatItems(side_panel) :
    ItemFiles(disk, i) = { ChatPath(Data(side_panel, i)[1], sanitize_filename(Data(side_panel, i)[2], now)) }

\* C4: every folder of the side panel's folders map has a directory of the
\* same name under storage_root.
C4_FoldersMirroredOnDisk ==
  \A n \in FolderNames(side_panel) : DirExists(disk, DirPath(n))

\* ---------------------------------------------------------------------------
\* the file name a rename of item i to the title of the editor text asks for
RenamedPath(sp, i, t) == ChatPath(Data(sp, i)[1], sanitize_filename(Data(sp, i)[2], t))

\* the post-condition of C5 for a rename step of item i
RenameKeepsArtifact(i) ==
  LET F == ItemFiles(disk, i)
      G == ItemFiles(disk', i)
      target == RenamedPath(side_panel', i, now)
  IN (F # {} /\ target \notin (AllFiles(disk) \ F)) =>
       /\ \A f \in F \ { target } : ~FileExists(disk', f)
       /\ G # {}
       /\ \A g \in G : \E f \in F : Content(FileAt(disk', g)) = Content(FileAt(disk, f))
       /\ resolve_chat_file(disk', Data(side_panel', i)[1], Data(side_panel', i)[2]) = G

\* C5: a rename of a chat whose file exists, to a title whose sanitized file
\* name is not taken by another file, leaves no file under the old name, keeps
\* the file content, and resolve_chat_file(folder, new_title) returns the
\* renamed file.
C5_RenameKeepsArtifact ==
  [][\A i \in 1..MaxItems, text \in TitleInputs : RenameChat(i, text) => RenameKeepsArtifact(i)]_vars

\* the chat items listed under some folder of the folders map
ListedItems(sp) == UNION { Range(sp.folders[k].items) : k \in 1..Len(sp.folders) }

\* the files of the chat entries other than i
OthersFiles(i) == UNION { ItemFiles(disk, j) : j \in ChatItems(side_panel) \ { i } }

\* the post-condition of C6 for a delete step of chat item i; a file that two
\* entries share is required neither to go nor to stay
DeleteChatConsistent(i) ==
  /\ i \notin ListedItems(side_panel')
  /\ i \notin Range(side_panel'.history_list)
  /\ \A f \in ItemFiles(disk, i) \ OthersFiles(i) : ~FileExists(disk', f)
  /\ \A f \in OthersFiles(i) \ ItemFiles(disk, i) : FileExists(disk', f)

\* C6: delete_chat(item) removes the item from its folder's item list and from
\* the history list, deletes the file that holds the chat, and deletes no file
\* of another chat entry.
C6_DeleteChatConsistent ==
  [][\A i \in 1..MaxItems : DeleteChat(i) => DeleteChatConsistent(i)]_vars

\* a folder record without the header widget's own copy of the name
FolderEntry(f) == [ name |-> f.name, item |-> f.item, items |-> f.items ]
FolderEntries(sp) == { FolderEntry(sp.folders[k]) : k \in 1..Len(sp.folders) }
\* the files below directory p
FilesUnder(dk, p) == { f \in AllFiles(dk) : IsPrefix(p, f[1]) }

\* the post-condition of C7 for a delete step of header item i whose folder is
\* present in the folders map
DeleteFolderConsistent(i) ==
  LET folder_name == Data(side_panel, i)[1]
      folder == FolderOf(side_panel, folder_name)
      gone == { folder.item } \cup Range(folder.items)
      folder_path == DirPath(folder_name)
  IN folder_name \in FolderNames(side_panel) =>
       /\ folder_name \notin FolderNames(side_panel')
       /\ gone \cap Range(side_panel'.history_list) = {}
       /\ ~DirExists(disk', folder_path)
       /\ \A j \in Range(folder.items) : \A f \in ItemFiles(disk, j) : ~FileExists(disk', f)
       /\ FolderEntries(side_panel') = FolderEntries(side_panel) \ { FolderEntry(folder) }
       /\ \A j \in Range(side_panel.history_list) \ gone :
            /\ j \in Range(side_panel'.history_list)
            /\ Data(side_panel', j) = Data(side_panel, j)
       /\ \A f \in AllFiles(disk) \ FilesUnder(disk, folder_path) :
            FileExists(disk', f) /\ FileAt(disk', f) = FileAt(disk, f)

\* C7: after delete_folder(item) for a folder present in the model the folder
\* is absent from the folders map, its header and all of its chat items are
\* removed from the history list, its directory and the files of its chats are
\* removed from disk, and every other folder, its chat entries and its files are unchanged.
C7_DeleteFolderConsistent ==
  [][\A i \in 1..MaxItems : DeleteFolder(i) => DeleteFolderConsistent(i)]_vars

\* the name update_folder_name receives as new_name when the editor of header
\* item i is left holding text: CollapsibleFolder.name after finish_inline_edit
EditedFolderName(sp, i, text) ==
  IF Strip(text) # << >> THEN Strip(text) ELSE FolderOf(sp, Data(sp, i)[1]).widget

\* the post-condition of C8 for update_folder_name(item, old_name, new_name)
FolderRenamed(old_name, new_name) ==
  LET folder == FolderOf(side_panel, old_name)
      old_path == DirPath(old_name)
      new_path == DirPath(new_name)
  IN IF new_name # << >> /\ new_name # old_name /\ new_name \notin FolderNames(side_panel)
     THEN /\ new_name \in FolderNames(side_panel')
          /\ old_name \notin FolderNames(side_panel')
          /\ \A j \in { folder.item } \cup Range(folder.items) : Data(side_panel', j)[1] = new_name
          /\ side_panel.active_folder = old_name => side_panel'.active_folder = new_name
          /\ DirExists(disk, old_path) =>
               /\ ~DirExists(disk', old_path)
               /\ DirExists(disk', new_path)
               /\ disk'[new_path] = disk[old_path]
     ELSE /\ FolderEntries(side_panel') = FolderEntries(side_panel)
          /\ side_panel'.items = side_panel.items
          /\ side_panel'.active_folder = side_panel.active_folder
          /\ disk' = disk

\* C8: after update_folder_name(item, old, new) with new non-empty, different
\* from old and not an existing folder name, the folders map has key new and
\* no key old, the header and the chat items of the folder carry the name new,
\* active_folder follows, and the directory old has become the directory new
\* with the same files; otherwise the folders map, the item data,
\* active_folder and the disk are unchanged.
C8_FolderRenamed ==
  [][\A i \in 1..MaxItems, text \in FolderInputs \cup { << >> } :
       (RenameFolder(i, text) /\ Data(side_panel, i)[1] \in FolderNames(side_panel))
         => FolderRenamed(Data(side_panel, i)[1], EditedFolderName(side_panel, i, text))]_vars

\* chat item i was created before its folder got its present name: the folder
\* name kept by its ChatItemWidget is not the one in its item data
FolderRenamedSince(sp, i) ==
  /\ sp.items[i].folder_name # Data(sp, i)[1]
  /\ Data(sp, i)[1] \in FolderNames(sp)
  /\ i \in Range(FolderOf(sp, Data(sp, i)[1]).items)

\* the post-condition of C9 for a rename step of chat item i whose file lies in
\* the renamed directory of its folder
RenameInRenamedFolder(i) ==
  LET folder == Data(side_panel, i)[1]
      F == ItemFiles(disk, i)
      target == ChatPath(folder, sanitize_filename(Data(side_panel', i)[2], now))
      G == ItemFiles(disk', i)
      d == delete_chat(side_panel', disk', i, now)
  IN (/\ FolderRenamedSince(side_panel, i)
      /\ F # {} /\ \A f \in F : f[1] = DirPath(folder)
      /\ target \notin (AllFiles(disk) \ F)) =>
       /\ Data(side_panel', i)[1] = folder
       /\ G = { target }
       /\ resolve_chat_file(disk', Data(side_panel', i)[1], Data(side_panel', i)[2]) = G
       /\ i \notin Range(d.sp.history_list)
       /\ \A g \in G : ~FileExists(d.disk, g)

\* C9: after a folder was renamed, a rename of a chat of that folder keeps the
\* folder's new name in the item's (folder, title) data, renames the chat's
\* file inside the renamed directory, and leaves the chat openable and
\* deletable through its entry.
C9_RenameAfterFolderRename ==
  [][\A i \in 1..MaxItems, text \in TitleInputs : RenameChat(i, text) => RenameInRenamedFolder(i)]_vars

\* the post-condition of C10 for a restart right after the rename of chat item i
RenameDurable(i) ==
  (i \in ChatItems(side_panel) /\ ItemFiles(disk, i) # {}) =>
    \E j \in ChatItems(side_panel') : Data(side_panel', j) = Data(side_panel, i)

\* C10: when the application is restarted after a chat was renamed, the side
\* panel lists that chat in the same folder under its new title, whether or
\* not the chat has messages.
C10_RenameDurable ==
  [][(Restart /\ last_op.op = "rename_chat") => RenameDurable(last_op.item)]_vars

\* ---------------------------------------------------------------------------
\* send_message(text) for a non-blank text at time t, as far as the chat file,
\* the side panel and chat_history go
send_message(sp, dk, ccf, history, text, t) ==
  LET e == ensure_chat_file(sp, dk, ccf, t)
      a == append_record(e.disk, e.ccf, history, UserMsg(text))
  IN [ sp |-> e.sp, disk |-> a.disk, ccf |-> e.ccf, history |-> a.history ]

\* what the next send_message must do once the step has renamed the open chat
\* (or its folder): F are the files of the open chat before the step
SendGoesToRenamedFile(F) ==
  LET G == { g \in AllFiles(disk') : \E f \in F : FileAt(disk', g).owner = FileAt(disk, f).owner }
      r == send_message(side_panel', disk', current_chat_file', chat_history', "hi", now')
  IN /\ G # {}
     /\ r.ccf \in G
     /\ AllFiles(r.disk) = AllFiles(disk')
     /\ r.sp = side_panel'
     /\ \A f \in F : FileAt(r.disk, r.ccf).messages = Append(FileAt(disk, f).messages, UserMsg("hi"))

\* the chat open in the chat window is that of the existing file current_chat_file
OpenFile == IF current_chat_file # None /\ FileExists(disk, current_chat_file) THEN { current_chat_file } ELSE {}

\* C11: when the chat that is open in the chat window is renamed, or its folder
\* is renamed, the next send_message appends to the renamed file: it creates no
\* new file and no new side-panel entry, and the renamed file then holds the
\* complete message list.
C11_SendAfterRename ==
  [][/\ \A i \in 1..MaxItems, text \in TitleInputs :
          (RenameChat(i, text) /\ OpenFile # {} /\ OpenFile \subseteq ItemFiles(disk, i) /\ disk' # disk)
            => SendGoesToRenamedFile(OpenFile)
     /\ \A i \in 1..MaxItems, text \in FolderInputs :
          (RenameFolder(i, text) /\ OpenFile # {} /\ current_chat_file[1] = DirPath(Data(side_panel, i)[1]) /\ disk' # disk)
            => SendGoesToRenamedFile(OpenFile)]_vars

\* ---------------------------------------------------------------------------
\* the existing files handle_open_chat_file(folder, title) may load for entry i
OpenedFiles(sp, dk, i) ==
  { f \in resolve_chat_file(dk, Data(sp, i)[1], Data(sp, i)[2]) : FileExists(dk, f) }

\* no file on disk stands for two chat entries of the side panel
NoSharedFile(sp, dk) ==
  \A f \in AllFiles(dk) : Cardinality(FileAt(dk, f).owner \cap ChatItems(sp)) <= 1

\* C12: as long as every chat entry of the side panel was given a file of its
\* own, two distinct chat entries are never opened on the same chat file.
C12_DistinctEntriesDistinctFiles ==
  NoSharedFile(side_panel, disk) =>
    \A i, j \in ChatItems(side_panel) :
      (i # j /\ ItemFiles(disk, i) # {} /\ ItemFiles(disk, j) # {})
        => OpenedFiles(side_panel, disk, i) \cap OpenedFiles(side_panel, disk, j) = {}

\* ---------------------------------------------------------------------------
\* arguments of resolve_chat_file
FolderArgs == { DefaultFolderName, <<"W">>, <<"Z">> }
TitleArgs == { <<"b">>, <<"B">>, <<"x">>, <<"b", "?">>, <<"q">> }
\* the JSON files of the folder whose sanitized stem is the sanitized title, ignoring case
StemMatches(dk, folder, title) ==
  { p \in Glob(dk, DirPath(folder)) : Lower(resolve_sanitize(p[2])) = Lower(resolve_sanitize(title)) }
\* the JSON files of the folder whose 'title' field is the title
TitleMatches(dk, folder, title) ==
  { p \in Glob(dk, DirPath(folder)) : FileAt(dk, p).kind = "dict" /\ FileAt(dk, p).title = title }

ResolvedInOrder(dk, folder, title) ==
  LET R == resolve_chat_file(dk, folder, title)
      exact == ChatPath(folder, title)
      sanitized == ChatPath(folder, resolve_sanitize(title))
  IN IF ~DirExists(dk, DirPath(folder)) THEN R = { exact }
     ELSE IF FileExists(dk, exact) THEN R = { exact }
     ELSE IF FileExists(dk, sanitized) THEN R = { sanitized }
     ELSE IF StemMatches(dk, folder, title) # {} THEN R # {} /\ R \subseteq StemMatches(dk, folder, title)
     ELSE IF TitleMatches(dk, folder, title) # {} THEN R # {} /\ R \subseteq TitleMatches(dk, folder, title)
     ELSE R = { exact } /\ ~FileExists(dk, exact)

\* C13: resolve_chat_file(folder, title) returns <title>.json if it exists,
\* else <sanitized title>.json if it exists, else a JSON file of the folder
\* whose sanitized stem equals the sanitized title ignoring case, else a JSON
\* file of the folder whose 'title' field equals the title, and otherwise, or
\* when the folder directory does not exist, the path <folder>/<title>.json.
C13_ResolvePrecedence ==
  \A folder \in FolderArgs, title \in TitleArgs : ResolvedInOrder(disk, folder, title)

\* C13 witness: an entry titled "b" was opened on the file B.json, found by its
\* stem, although another file of the folder carries the title "b" inside
C13_Witness ==
  /\ last_op.op = "open_chat"
  /\ last_op.item \in ChatItems(side_panel)
  /\ Data(side_panel, last_op.item)[2] = <<"b">>
  /\ current_chat_file = ChatPath(DefaultFolderName, <<"B">>)
  /\ ~FileExists(disk, ChatPath(DefaultFolderName, <<"b">>))
  /\ TitleMatches(disk, DefaultFolderName, <<"b">>) = { ChatPath(DefaultFolderName, <<"b", "_">>) }

\* ---------------------------------------------------------------------------
\* the post-condition of C14 for a rename step of chat item i
RenameSparesOthers(i) ==
  LET folder == Data(side_panel', i)[1]
      old_title == side_panel.items[i].label
      new_title == side_panel'.items[i].label
      chosen == IF DirExists(disk, DirPath(folder))
                THEN rename_chat_chosen(disk, folder, old_title, new_title, now) ELSE {}
      new_stem == sanitize_filename(new_title, now)
      target == ChatPath(folder, new_stem)
      suffixed == ChatPath(folder, new_stem \o << "_", StampRename(now) >>)
  IN IF chosen = {} THEN disk' = disk
     ELSE \E c \in chosen :
            /\ \A f \in OthersFiles(i) \ ItemFiles(disk, i) : FileExists(disk', f) /\ FileAt(disk', f) = FileAt(disk, f)
            /\ \A f \in AllFiles(disk) \ { c } : FileExists(disk', f) /\ FileAt(disk', f) = FileAt(disk, f)
            /\ (FileExists(disk, target) /\ target # c) =>
                 /\ FileExists(disk', suffixed)
                 /\ FileAt(disk', suffixed) = FileAt(disk, c)
                 /\ ~FileExists(disk', c)
            /\ target = c => disk' = disk

\* C14: rename_chat never overwrites or removes the file of a different chat:
\* when <sanitized new title>.json exists and is not the file being renamed,
\* the renamed file gets the name <sanitized new title>_<timestamp>.json and
\* every other file keeps its name and content; when the target is the file
\* being renamed, nothing on disk changes. Stated for the states in which every
\* chat entry has a file of its own.
C14_RenameSparesOthers ==
  [][\A i \in 1..MaxItems, text \in TitleInputs :
       (/\ RenameChat(i, text)
        /\ NoSharedFile(side_panel, disk)
        /\ \A j \in ChatItems(side_panel) : ItemFiles(disk, j) # {}) => RenameSparesOthers(i)]_vars

\* ---------------------------------------------------------------------------
\* C15: when handle_open_chat_file(folder, title) cannot resolve an existing
\* file, current_chat_file, chat_history and the displayed messages stay as
\* they were.
C15_OpenUnresolvedNoChange ==
  [][\A i \in 1..MaxItems :
       (OpenChat(i) /\ OpenedFiles(side_panel, disk, i) = {})
         => UNCHANGED << current_chat_file, chat_history, display >>]_vars

\* C15 witness: an entry that resolves to no file was opened while another chat
\* with a message was open in the chat window
C15_Witness ==
  /\ last_op.op = "open_chat"
  /\ last_op.item \in ChatItems(side_panel)
  /\ OpenedFiles(side_panel, disk, last_op.item) = {}
  /\ current_chat_file # None
  /\ chat_history # << >>
  /\ display # << >>

\* ---------------------------------------------------------------------------
\* C16: after handle_open_chat_file succeeds, current_chat_file is the resolved
\* file and chat_history holds exactly one record per message stored in that
\* file, in file order, with the same role, text and images, for a file that is
\* a bare list of messages and for a file that is a dict with 'title' and
\* 'messages'.
StoredMessages(dk, f) == FileAt(dk, f).messages
SameRecords(history, messages) ==
  /\ Len(history) = Len(messages)
  /\ \A k \in 1..Len(messages) :
       /\ history[k].role = messages[k].role
       /\ history[k].text = messages[k].text
       /\ history[k].images = messages[k].images
OpenedAsStored(i) ==
  \E f \in OpenedFiles(side_panel, disk, i) :
    /\ current_chat_file' = f
    /\ FileAt(disk, f).kind \in { "dict", "list" }
         => SameRecords(chat_history', StoredMessages(disk, f))
C16_OpenLoadsStoredMessages ==
  [][\A i \in 1..MaxItems :
       (OpenChat(i) /\ OpenedFiles(side_panel, disk, i) # {}) => OpenedAsStored(i)]_vars

\* C16 witness: a file in the old format, a bare list of two messages, was
\* opened and both messages are in chat_history
C16_Witness ==
  /\ last_op.op = "open_chat"
  /\ current_chat_file # None
  /\ FileExists(disk, current_chat_file)
  /\ FileAt(disk, current_chat_file).kind = "list"
  /\ Len(FileAt(disk, current_chat_file).messages) = 2
  /\ SameRecords(chat_history, FileAt(disk, current_chat_file).messages)

\* ---------------------------------------------------------------------------
\* C17: after load_chat_history the side panel has one folder per directory of
\* storage_root and, in each folder, one chat entry per JSON file whose content
\* is a dict or a list, titled by the file's 'title' field, or by the file stem
\* when the field is missing or the file is a list; an unreadable file or a
\* file of another shape has no entry and the files after it are still loaded.
TopDirs(dk) == { p[1] : p \in { q \in DOMAIN dk : Len(q) = 1 } }
LoadedTitle(dk, f) ==
  IF FileAt(dk, f).kind = "dict" /\ FileAt(dk, f).title # MissingTitle
  THEN FileAt(dk, f).title ELSE f[2]
FolderChats(sp, d) == { i \in ChatItems(sp) : Data(sp, i)[1] = d }
LoadedAsStored(sp, dk) ==
  /\ TopDirs(dk) # {} =>
       /\ FolderNames(sp) = TopDirs(dk)
       /\ Len(sp.folders) = Cardinality(TopDirs(dk))
  /\ \A d \in TopDirs(dk) :
       LET files == Glob(dk, DirPath(d))
           chats == { f \in files : FileAt(dk, f).kind \in { "dict", "list" } }
       IN /\ \A f \in chats :
               \E i \in FolderChats(sp, d) :
                 /\ FileAt(dk, f).owner = { i }
                 /\ sp.items[i].label = LoadedTitle(dk, f)
                 /\ Data(sp, i)[2] = LoadedTitle(dk, f)
          /\ \A f \in files \ chats : FileAt(dk, f).owner = {}
          /\ Cardinality(FolderChats(sp, d)) = Cardinality(chats)
C17_LoadedAsStored == LoadedAsStored(side_panel, disk)

\* ---------------------------------------------------------------------------
\* C18: after on_new_chat -> handle_new_chat the chat window is cleared,
\* chat_history is empty and current_chat_file is the newly created file in the
\* active folder, so the first message sent in the new chat is stored and sent
\* to the backend without any message of the chat that was open before.
NewChatResets ==
  LET folder_name == side_panel'.active_folder
      sent_next == send_message(side_panel', disk', current_chat_file', chat_history', "hi", now)
  IN /\ display' = << >>
     /\ chat_history' = << >>
     /\ current_chat_file' = ChatPath(folder_name, << StampNewChat(now) >>)
     /\ FileExists(disk', current_chat_file')
     /\ sent_next.history = << UserMsg("hi") >>
     /\ history_to_messages(sent_next.history)
          = << [ role |-> "system", content |-> "system prompt" ], [ role |-> "user", content |-> "hi" ] >>
C18_NewChatResets ==
  [][(NewChat /\ \A f \in AllFiles(disk) : f[2] # << StampNewChat(now) >>) => NewChatResets]_vars

\* ---------------------------------------------------------------------------
\* C19: add_usage(n) on a date other than last_date sets today_tokens to 0 and
\* last_date to the current date and then adds n to both counters, so that
\* afterwards today_tokens = n and total_tokens is the previous total plus n;
\* on the same date both counters grow by n; total_tokens is never reduced by
\* a day change; the new state is saved after every add_usage.
AddUsagePost(n) ==
  /\ IF token_manager.last_date # DateStr(current_date)
     THEN /\ token_manager'.today_tokens = n
          /\ token_manager'.last_date = DateStr(current_date)
     ELSE /\ token_manager'.today_tokens = token_manager.today_tokens + n
          /\ token_manager'.last_date = token_manager.last_date
  /\ token_manager'.total_tokens = token_manager.total_tokens + n
  /\ token_manager'.total_tokens >= token_manager.total_tokens
  /\ stats_file' = StatsDict(IntVal(token_manager'.total_tokens), IntVal(token_manager'.today_tokens),
                             token_manager'.last_date)
C19_DayReset == [][\A n \in UsageInputs : AddUsage(n) => AddUsagePost(n)]_vars

\* C19 witness: usage was added on the day after a day with usage: today's
\* counter restarted at the amount added and the total kept growing
C19_Witness ==
  /\ token_op.op = "add_usage"
  /\ token_op.usage = 3
  /\ token_op.tm.last_date # DateStr(token_op.date)
  /\ token_op.tm.today_tokens > 0
  /\ token_manager.today_tokens = 3
  /\ token_manager.total_tokens = token_op.tm.total_tokens + 3
  /\ token_manager.total_tokens > token_manager.today_tokens

\* ---------------------------------------------------------------------------
\* C20: load_data leaves the counters at 0 and writes nothing when the stats
\* file does not exist; when the stored total or today is a float, or the file
\* cannot be read or parsed, it resets total_tokens and today_tokens to 0, sets
\* last_date to the current date and saves this zero state; otherwise the
\* stored integers are loaded and the day-change reset is applied.
StoredInt(v) == IF v.type = "absent" THEN 0 ELSE v.val
LoadedAsClaimed(file, d, tm, after) ==
  LET zero == TokenState(0, 0, DateStr(d))
      stored_date == IF file.date = NoDate THEN DateStr(d) ELSE file.date
  IN /\ file.kind = "missing" => (tm = zero /\ after = file)
     /\ (\/ file.kind = "corrupt"
         \/ file.kind = "dict" /\ (file.total.type = "float" \/ file.today.type = "float"))
          => (tm = zero /\ after = StatsDict(IntVal(0), IntVal(0), DateStr(d)))
     /\ (file.kind = "dict" /\ file.total.type \in { "int", "absent" } /\ file.today.type \in { "int", "absent" })
          => /\ tm.total_tokens = StoredInt(file.total)
             /\ tm.last_date = DateStr(d)
             /\ IF stored_date = DateStr(d)
                THEN tm.today_tokens = StoredInt(file.today) /\ after = file
                ELSE tm.today_tokens = 0
                     /\ after = StatsDict(IntVal(tm.total_tokens), IntVal(0), DateStr(d))
C20_LoadData ==
  token_op.op = "load_data" => LoadedAsClaimed(token_op.file, token_op.date, token_manager, stats_file)

\* C20 witness: a stats file with a float total and a positive integer today
\* was loaded: the counters are 0 and the file holds the zero state
C20_Witness ==
  /\ token_op.op = "load_data"
  /\ token_op.file.kind = "dict"
  /\ token_op.file.total.type = "float"
  /\ token_op.file.today = IntVal(2)
  /\ token_manager = TokenState(0, 0, DateStr(current_date))
  /\ stats_file = StatsDict(IntVal(0), IntVal(0), DateStr(current_date))

\* ---------------------------------------------------------------------------
\* C21: after stop() is called the run loop of the worker eventually
\* terminates, with an empty queue and with pending tasks alike: an idle worker
\* leaves the loop within one queue-poll timeout, a worker with a request in
\* flight leaves it once the request returns, and a task that is still pending
\* in the queue is never sent.
QueuedIds == { queue[k].id : k \in 1..Len(queue) } \ { NoneTask.id }
SentIds == { sent[k].task : k \in 1..Len(sent) }
C21_LoopTerminates == (~running) ~> (wpc = "exited")
C21_PendingNeverSent ==
  \A id \in 1..MaxTasks : []((~running /\ id \in QueuedIds) => [](id \notin SentIds))
C21_StopTerminates == C21_LoopTerminates /\ C21_PendingNeverSent

\* ---------------------------------------------------------------------------
\* C22: update_config changes the configuration of the running worker: a task
\* that the worker takes from the queue after update_config(key, url, model)
\* has returned is sent to url with key and model (those of a later call that
\* has returned are accepted as well), and the steps of update_config leave the
\* queue as it is, so that no queued task is lost or reordered.
UpdateConfigStep == (\E url \in Urls : UpdateConfigKey(url)) \/ UpdateConfigUrl \/ UpdateConfigModel
C22_ConfigTakesEffect ==
  [][/\ (WorkerSend /\ config_op.at_get # InitConfig)
          => sent'[Len(sent')].cfg \in { config_op.at_get, config_op.returned }
     /\ UpdateConfigStep => queue' = queue]_vars

====
